---- MODULE Spec2Model ----
(***************************************************************************)
(* Model of src/lib/utils/DOM/index.js (widgetly DOM helpers): the         *)
(* mutation channel and the removal watcher, scrollable-ancestor           *)
(* resolution and scrollByElementTo, and the class utilities.              *)
(***************************************************************************)
EXTENDS Integers, Sequences, FiniteSets, TLC

\* ------------------------------------------------------------------ bounds
MaxElems == 2
MaxWatchers == 2

\* ------------------------------------------------------------ document tree
Null == "null"
Document == "document"
DocumentElement == "html"
DocumentHead == "head"
DocumentBody == "body"

ElemNames == <<"e1", "e2", "e3", "e4">>
Elems == {ElemNames[i] : i \in 1..MaxElems}
Nodes == {Document, DocumentElement, DocumentHead, DocumentBody} \cup Elems

VARIABLES
  parent,        \* parentNode of every node (Null when it has none)
  native,        \* the platform offers a native MutationObserver
  observing,     \* mutationObserver.observe() has been called (after domready)
  pending,       \* the native observer holds undelivered mutation records
  listeners,     \* mutationEvents' listener array for 'mutation' (watch ids)
  regs,          \* one record per onRemoveFromDOM call, in call order
  calls,         \* log of callback invocations (watch ids), in order, grouped
                 \* by the 'mutation' event that made them
  layout,        \* scrollHeight, clientHeight and computed overflowY per node
  found,         \* the last findScrollableParent call: start node and result
  lastScroll,    \* the last scrollByElementTo call: inputs and what it did
  classList,     \* element.classList of the one element the class utilities get
  lastClassOp    \* the last class utility call: inputs, class list before, outcome

watchVars == <<native, observing, pending, listeners, regs, calls>>
scrollVars == <<layout, found, lastScroll>>
classVars == <<classList, lastClassOp>>
vars == <<parent, watchVars, scrollVars, classVars>>

Range(s) == {s[i] : i \in 1..Len(s)}

RECURSIVE Contains(_, _, _)
\* Node.contains: a is n or an ancestor of n, in tree p
Contains(p, a, n) ==
  IF n = Null THEN FALSE
  ELSE IF n = a THEN TRUE
  ELSE Contains(p, a, p[n])

\* isElementInDOM: document.body.contains(element)
IsElementInDOM(element) == Contains(parent, DocumentBody, element)

\* the node is connected to the document (its ancestor chain reaches it)
AttachedToDocument(element) == Contains(parent, Document, element)

\* ------------------------------------------------- layout read by the scroll code
MaxPx == 1
\* pixel values read or passed: zero and a non-zero offset
Px == {0, MaxPx}

\* nodes with a box: scrollHeight, clientHeight and a computed style
LayoutNodes == {DocumentElement, DocumentBody} \cup Elems

OverflowValues == {"visible", "auto", "scroll"}
\* content that fits (scrollHeight = clientHeight) or overflows it
Layouts == [scrollHeight : {1, 2}, clientHeight : {1}, overflowY : OverflowValues]

DefaultLayout ==
  [n \in LayoutNodes |-> [scrollHeight |-> 1, clientHeight |-> 1, overflowY |-> "visible"]]

NoCall == [element |-> "none"]


\* the tree before the application touches it: every element is detached
InitParent ==
  [n \in Nodes |->
     IF n = DocumentElement THEN Document
     ELSE IF n \in {DocumentHead, DocumentBody} THEN DocumentElement
     ELSE Null]

\* a childList record is queued when the native observer watches the parent
\* whose child list changes (observedNode = document.body, subtree: true)
Records(p) == observing /\ native /\ IsElementInDOM(p)

\* EventEmitter.removeListener: drop the listener from the array
RemoveListener(live, id) == SelectSeq(live, LAMBDA x : x # id)

\* onMutation of watch id: when the element is no longer in the DOM, remove
\* the listener and invoke the callback; st = [listeners, batch], batch the
\* callbacks invoked so far by this event
OnMutationKeepListener(id, st) ==
  IF ~IsElementInDOM(regs[id].element)
  THEN [listeners |-> st.listeners,
        batch |-> Append(st.batch, id)]
  ELSE st

OnMutation(id, st) ==
  IF ~IsElementInDOM(regs[id].element)
  THEN [listeners |-> RemoveListener(st.listeners, id),
        batch |-> Append(st.batch, id)]
  ELSE st

RECURSIVE EmitLive(_, _, _)
\* (a dispatch that walks the live listener array by index)
EmitLive(snapshot, k, st) ==
  IF k > Len(st.listeners) THEN st
  ELSE EmitLive(snapshot, k + 1, OnMutation(st.listeners[k], st))

RECURSIVE EmitLoop(_, _, _)
\* EventEmitter.emit: the listener array is copied, then every listener of
\* the copy is called in order
EmitLoop(snapshot, k, st) ==
  IF k > Len(snapshot) THEN st
  ELSE EmitLoop(snapshot, k + 1, OnMutation(snapshot[k], st))

\* mutationEvents.emit('mutation', e)
Emit ==
  LET r == EmitLoop(listeners, 1, [listeners |-> listeners, batch |-> <<>>])
  IN /\ listeners' = r.listeners
     /\ calls' = IF r.batch = <<>> THEN calls ELSE Append(calls, r.batch)

Init ==
  /\ parent = InitParent
  /\ layout = DefaultLayout
  /\ found = NoCall
  /\ lastScroll = NoCall
  /\ classList = {}
  /\ lastClassOp = NoCall
  /\ classList = {}
  /\ lastClassOp = NoCall
  /\ native \in BOOLEAN
  /\ observing = FALSE
  /\ pending = FALSE
  /\ listeners = <<>>
  /\ regs = <<>>
  /\ calls = <<>>

\* domready(() => mutationObserver.observe(observedNode, ...))
DomReady ==
  /\ ~observing
  /\ observing' = TRUE
  /\ UNCHANGED <<scrollVars, classVars, parent, native, pending, listeners, regs, calls>>

\* the application inserts a detached element under p
AppendChild(e, p) ==
  /\ parent[e] = Null
  /\ ~Contains(parent, e, p)
  /\ parent' = [parent EXCEPT ![e] = p]
  /\ pending' = (pending \/ Records(p))
  /\ UNCHANGED <<scrollVars, classVars, native, observing, listeners, regs, calls>>

\* removeFromDOM(element)
RemoveFromDOM(element) ==
  /\ parent[element] # Null
  /\ parent' = [parent EXCEPT ![element] = Null]
  /\ pending' = (pending \/ Records(parent[element]))
  /\ UNCHANGED <<scrollVars, classVars, native, observing, listeners, regs, calls>>

\* (a watcher that subscribes without the containment check)
OnRemoveFromDOMAlways(element) ==
  /\ Len(regs) < MaxWatchers
  /\ regs' = Append(regs, [element |-> element,
                           attachedAtCall |-> AttachedToDocument(element),
                           inBodyAtCall |-> IsElementInDOM(element)])
  /\ listeners' = Append(listeners, Len(regs) + 1)
  /\ UNCHANGED <<scrollVars, classVars, parent, native, observing, pending, calls>>

\* onRemoveFromDOM(element, callback); the callback is identified by the
\* index of the call
OnRemoveFromDOM(element) ==
  /\ Len(regs) < MaxWatchers
  /\ regs' = Append(regs, [element |-> element,
                           attachedAtCall |-> AttachedToDocument(element),
                           inBodyAtCall |-> IsElementInDOM(element)])
  /\ listeners' = IF IsElementInDOM(element)
                  THEN Append(listeners, Len(regs) + 1)
                  ELSE listeners
  /\ UNCHANGED <<scrollVars, classVars, parent, native, observing, pending, calls>>

\* the native observer delivers its queued records: one 'mutation' event
ObserverCallback ==
  /\ native
  /\ pending
  /\ pending' = FALSE
  /\ Emit
  /\ UNCHANGED <<scrollVars, classVars, parent, native, observing, regs>>

\* (a poll that publishes only when something is queued)
PollTickIfPending ==
  /\ ~native
  /\ observing
  /\ pending
  /\ Emit
  /\ UNCHANGED <<scrollVars, classVars, parent, native, observing, pending, regs>>

\* the fallback observer: setInterval(callback, 2e3) after observe()
PollTick ==
  /\ ~native
  /\ observing
  /\ Emit
  /\ UNCHANGED <<scrollVars, classVars, parent, native, observing, pending, regs>>

Next ==
  \/ DomReady
  \/ \E e \in Elems : \E p \in {DocumentHead, DocumentBody} \cup Elems : AppendChild(e, p)
  \/ \E e \in Elems : RemoveFromDOM(e)
  \/ \E e \in Elems : OnRemoveFromDOM(e)
  \/ ObserverCallback
  \/ PollTick

Spec == Init /\ [][Next]_vars

\* a platform without a native observer: the fallback of lines 16-22 is used
InitPoll == Init /\ ~native

NextPoll ==
  \/ DomReady
  \/ \E e \in Elems : \E p \in {DocumentHead, DocumentBody} \cup Elems : AppendChild(e, p)
  \/ \E e \in Elems : RemoveFromDOM(e)
  \/ \E e \in Elems : OnRemoveFromDOM(e)
  \/ PollTick

\* the document-ready signal and the interval timer always come
SpecPoll == InitPoll /\ [][NextPoll]_vars /\ WF_vars(DomReady) /\ WF_vars(PollTick)

\* ------------------------------------------------------- removal watcher claims

\* how many times callback x has been invoked
Count(log, x) ==
  Cardinality({b \in {<<k, n>> : k \in 1..Len(log), n \in 1..MaxWatchers + 1} :
                 b[2] <= Len(log[b[1]]) /\ log[b[1]][b[2]] = x})
Listening(i) == i \in Range(listeners)
Fired(i) == \E k \in 1..Len(calls) : i \in Range(calls[k])
Absent(i) == i <= Len(regs) /\ ~IsElementInDOM(regs[i].element)
Present(i) == i <= Len(regs) /\ IsElementInDOM(regs[i].element)

\* a step that publishes one 'mutation' event
MutationEvent == ObserverCallback \/ PollTick

\* the watcher contract for the calls selected by InDomain: the watch is
\* registered by the call and stays registered until it fires; a mutation
\* event that finds the element absent invokes the callback and deregisters
\* the watch; no callback is ever invoked twice
WatchContract(InDomain(_)) ==
  /\ \A i \in 1..Len(regs') :
       /\ Count(calls', i) <= 1
       /\ InDomain(regs'[i]) => (Listening(i)' # Fired(i)')
  /\ MutationEvent =>
       \A i \in 1..Len(regs) :
         (InDomain(regs[i]) /\ Listening(i) /\ Absent(i)) =>
           (Count(calls', i) = Count(calls, i) + 1 /\ ~Listening(i)')
  /\ \A i \in 1..Len(regs) : Fired(i) => Count(calls', i) = 1

InBodyAtCall(r) == r.inBodyAtCall
AttachedAtCall(r) == r.attachedAtCall

C2_DetachedNeverWatched ==
  \A i \in 1..Len(regs) :
    ~regs[i].attachedAtCall => (~Listening(i) /\ ~Fired(i))

\* C2 witness: the node of an unattached call was later attached and detached
\* again, and a mutation event was published (a later watch on the same node
\* fired), while the first callback stays uninvoked.
C2_Witness ==
  \E i, j \in 1..Len(regs) :
    /\ i < j
    /\ regs[i].element = regs[j].element
    /\ ~regs[i].attachedAtCall
    /\ Fired(j)
    /\ ~Fired(i)

DefaultDuration == 200

ElemIndex(e) == CHOOSE i \in 1..MaxElems : ElemNames[i] = e

\* the document trees the resolution is applied to: every element is detached,
\* a child of body or a child of another element (elements are numbered so
\* that a parent precedes its children)
ScrollTrees ==
  {[n \in Nodes |-> IF n \in Elems THEN f[n] ELSE InitParent[n]] :
     f \in {g \in [Elems -> {Null, DocumentBody} \cup Elems] :
              \A e \in Elems : g[e] \in Elems => ElemIndex(g[e]) < ElemIndex(e)}}

\* element.scrollHeight > element.clientHeight (both undefined on the document)
HasOverflow(element) ==
  /\ element \in LayoutNodes
  /\ layout[element].scrollHeight > layout[element].clientHeight

RECURSIVE FindScrollableParentAutoOnly(_)
\* (a resolution that accepts only overflowY 'auto')
FindScrollableParentAutoOnly(element) ==
  IF element = Null THEN DocumentElement
  ELSE IF /\ (HasOverflow(element) \/ element = DocumentBody \/ element = DocumentElement)
          /\ layout[element].overflowY = "auto"
       THEN element
       ELSE FindScrollableParentAutoOnly(parent[element])

RECURSIVE FindScrollableParentNoFallback(_)
\* (a resolution that yields nothing when the walk leaves the tree)
FindScrollableParentNoFallback(element) ==
  IF element = Null THEN Null
  ELSE IF /\ (HasOverflow(element) \/ element = DocumentBody \/ element = DocumentElement)
          /\ layout[element].overflowY \in {"auto", "scroll"}
       THEN element
       ELSE FindScrollableParentNoFallback(parent[element])

RECURSIVE FindScrollableParent(_)
\* findScrollableParent(element)
FindScrollableParent(element) ==
  IF element = Null THEN DocumentElement
  ELSE IF /\ (HasOverflow(element) \/ element = DocumentBody \/ element = DocumentElement)
          /\ layout[element].overflowY \in {"auto", "scroll"}
       THEN element
       ELSE FindScrollableParent(parent[element])

InitResolve ==
  /\ parent \in ScrollTrees
  /\ layout \in [LayoutNodes -> Layouts]
  /\ found = NoCall
  /\ lastScroll = NoCall
  /\ classList = {}
  /\ lastClassOp = NoCall
  /\ native = TRUE
  /\ observing = FALSE
  /\ pending = FALSE
  /\ listeners = <<>>
  /\ regs = <<>>
  /\ calls = <<>>

\* one call findScrollableParent(start); the call changes nothing it reads,
\* so one call per behaviour covers every call
Resolve ==
  /\ found = NoCall
  /\ \E start \in LayoutNodes \cup {Null} :
       found' = [element |-> start, result |-> FindScrollableParent(start)]
  /\ UNCHANGED <<parent, watchVars, classVars, layout, lastScroll>>

NextResolve == Resolve

SpecResolve == InitResolve /\ [][NextResolve]_vars

\* ------------------------------------------------------------ scrollByElementTo

\* (a scroll-to that also gives up when the resolved ancestor is the root)
ScrollByElementToSkipRoot(element, top, elementTop, parentTop, scrollTop) ==
  LET p == FindScrollableParent(element)
      call == [element |-> element, top |-> top, elementTop |-> elementTop,
               parentTop |-> parentTop, scrollTop |-> scrollTop, parent |-> p]
  IN IF p = Null \/ p = element \/ p = DocumentElement
     THEN call @@ [raised |-> FALSE, scrollToTop |-> <<>>]
     ELSE IF element = Null
     THEN call @@ [raised |-> TRUE, scrollToTop |-> <<>>]
     ELSE call @@ [raised |-> FALSE,
                   scrollToTop |-> <<[node |-> p,
                                      to |-> elementTop - parentTop + top,
                                      duration |-> DefaultDuration]>>]

\* scrollByElementTo(element, top): the record of the call. elementTop and
\* parentTop are the tops of the two bounding rectangles, scrollTop the
\* current scroll offset of the resolved ancestor (not read by the code);
\* scrollToTop holds the call made to the animation, if any
ScrollByElementTo(element, top, elementTop, parentTop, scrollTop) ==
  LET p == FindScrollableParent(element)
      call == [element |-> element, top |-> top, elementTop |-> elementTop,
               parentTop |-> parentTop, scrollTop |-> scrollTop, parent |-> p]
  IN IF p = Null \/ p = element
     THEN call @@ [raised |-> FALSE, scrollToTop |-> <<>>]
     ELSE IF element = Null
     THEN \* null.getBoundingClientRect(): TypeError
          call @@ [raised |-> TRUE, scrollToTop |-> <<>>]
     ELSE call @@ [raised |-> FALSE,
                   scrollToTop |-> <<[node |-> p,
                                      to |-> elementTop - parentTop + top,
                                      duration |-> DefaultDuration]>>]

\* the trees scrollByElementTo is applied to: the elements form one chain,
\* e1 the topmost, which is detached or a child of body (the walk reads only
\* the chain of the start node, whose every length and end is covered)
ChainTrees ==
  {[n \in Nodes |->
      IF n \in Elems
      THEN IF ElemIndex(n) = 1 THEN top ELSE ElemNames[ElemIndex(n) - 1]
      ELSE InitParent[n]] : top \in {Null, DocumentBody}}

InitScroll ==
  /\ parent \in ChainTrees
  /\ layout \in [LayoutNodes -> Layouts]
  /\ found = NoCall
  /\ lastScroll = NoCall
  /\ classList = {}
  /\ lastClassOp = NoCall
  /\ native = TRUE
  /\ observing = FALSE
  /\ pending = FALSE
  /\ listeners = <<>>
  /\ regs = <<>>
  /\ calls = <<>>

\* one call scrollByElementTo(element, top); the call changes nothing it
\* reads, so one call per behaviour covers every call
ScrollCall ==
  /\ lastScroll = NoCall
  /\ \E element \in LayoutNodes \cup {Null} :
       \E top \in Px, elementTop \in Px, parentTop \in Px, scrollTop \in Px :
         lastScroll' = ScrollByElementTo(element, top, elementTop, parentTop, scrollTop)
  /\ UNCHANGED <<parent, watchVars, classVars, layout, found>>

NextScroll == ScrollCall

SpecScroll == InitScroll /\ [][NextScroll]_vars

\* ----------------------------------------------------------- scroll claims

RECURSIVE ChainOf(_)
\* the start node followed by its ancestors, nearest first
ChainOf(n) == IF n = Null THEN <<>> ELSE <<n>> \o ChainOf(parent[n])

OverflowScrolls(n) == n \in LayoutNodes /\ layout[n].overflowY \in {"auto", "scroll"}
IsBodyOrRoot(n) == n \in {DocumentBody, DocumentElement}

\* the test the specification states
QualifiesAsStated(n) == HasOverflow(n) /\ (IsBodyOrRoot(n) \/ OverflowScrolls(n))

\* the test of lines 168-173
QualifiesAsCoded(n) == (HasOverflow(n) \/ IsBodyOrRoot(n)) /\ OverflowScrolls(n)

\* the nearest node of the chain passing the test, else the root element
Nearest(Q(_), start) ==
  LET chain == ChainOf(start)
      hits == {k \in 1..Len(chain) : Q(chain[k])}
  IN IF hits = {} THEN DocumentElement
     ELSE chain[CHOOSE k \in hits : \A j \in hits : k <= j]

Resolved == found # NoCall

\* C4 (as amended): resolution returns the nearest node on the chain start
\* node, parent, grandparent, ... whose computed vertical overflow is exactly
\* 'auto' or 'scroll' AND (whose content height exceeds its visible height OR
\* which is the document body OR the document root element); it returns the
\* document root element when no node on the chain satisfies this.
C4_NearestQualifying ==
  Resolved => found.result = Nearest(QualifiesAsCoded, found.element)

\* C4 witness: a start node nested two levels below body, which like its
\* parent overflows with overflow 'visible', is resolved to the body, whose
\* overflow is 'scroll' and whose content fits.
C4_Witness ==
  /\ Resolved
  /\ found.element \in Elems
  /\ parent[found.element] \in Elems
  /\ HasOverflow(found.element) /\ HasOverflow(parent[found.element])
  /\ parent[parent[found.element]] = DocumentBody
  /\ found.result = DocumentBody
  /\ layout[DocumentBody].overflowY = "scroll"
  /\ ~HasOverflow(DocumentBody)

\* C4 (as stated): the test is content height exceeds visible height AND
\* (body OR root element OR overflow 'auto' or 'scroll').
C4_Original ==
  Resolved => found.result = Nearest(QualifiesAsStated, found.element)

Scrolled == lastScroll # NoCall
Started == Scrolled /\ lastScroll.scrollToTop # <<>>
Detached(n) == n # Null /\ ~AttachedToDocument(n)
NoneQualifies(n) ==
  \A k \in 1..Len(ChainOf(n)) : ~QualifiesAsCoded(ChainOf(n)[k])

\* C6: when an animation is started, its target offset puts the node's top
\* desiredTopOffset pixels below the ancestor's top: target = ancestor's
\* scroll offset + (node's top - ancestor's top) - desiredTopOffset.
C6_TargetOffset ==
  Started =>
    lastScroll.scrollToTop[1].to =
      lastScroll.scrollTop + (lastScroll.elementTop - lastScroll.parentTop) - lastScroll.top

\* C7 (as amended): scrollByElementTo on an element never raises and is a
\* no-op exactly when the resolved ancestor is the element itself; on a
\* target that is detached, or that has no scrollable ancestor, it resolves
\* the document root element and, unless the target is the root element
\* itself, starts one animation on the root element.
C7_NoOpOnlyOnSelf ==
  (Scrolled /\ lastScroll.element # Null) =>
    /\ ~lastScroll.raised
    /\ Len(lastScroll.scrollToTop) <= 1
    /\ Started <=> lastScroll.parent # lastScroll.element
    /\ Started => lastScroll.scrollToTop[1].node = lastScroll.parent
    /\ NoneQualifies(lastScroll.element) =>
         /\ lastScroll.parent = DocumentElement
         /\ Started <=> lastScroll.element # DocumentElement

\* C7 witness: a call on a detached element none of whose chain passes the
\* test started an animation on the root element.
C7_Witness ==
  /\ Started
  /\ Detached(lastScroll.element)
  /\ NoneQualifies(lastScroll.element)
  /\ lastScroll.scrollToTop[1].node = DocumentElement

\* C7 (as stated): on a detached target, or a target with no scrollable
\* ancestor, the call schedules no animation.
C7_Original ==
  (Scrolled /\ lastScroll.element # Null
     /\ (Detached(lastScroll.element) \/ NoneQualifies(lastScroll.element)))
  => (~lastScroll.raised /\ ~Started)

\* -------------------------------------------------------------- class utilities

MaxKeys == 2

ClassNames == {"a", "b", "c", "x", "y"}

\* a string argument, as its whitespace-separated tokens (<<>> is '' or blank)
Str(tokens) == [kind |-> "string", tokens |-> tokens]
\* an object argument, as its own keys in insertion order with their values
Obj(entries) == [kind |-> "object", entries |-> entries]
\* a boolean argument
Bool(v) == [kind |-> "boolean", value |-> v]

Strings == {Str(<<>>)} \cup {Str(<<t>>) : t \in ClassNames}
Entries == [key : ClassNames, value : BOOLEAN]
EntrySeqs ==
  UNION {{s \in [1..n -> Entries] :
            \A i, j \in 1..n : i # j => s[i].key # s[j].key} : n \in 0..MaxKeys}
Objects == {Obj(s) : s \in EntrySeqs}

RECURSIVE TruthyKeys(_)
\* the keys of an object whose value is truthy, in order
TruthyKeys(entries) ==
  IF entries = <<>> THEN <<>>
  ELSE (IF Head(entries).value THEN <<Head(entries).key>> ELSE <<>>)
       \o TruthyKeys(Tail(entries))

RECURSIVE AllKeys(_)
AllKeys(entries) ==
  IF entries = <<>> THEN <<>>
  ELSE <<Head(entries).key>> \o AllKeys(Tail(entries))

RECURSIVE ClassnamesAllKeys(_)
\* (a composition that keeps the keys of falsy values too)
ClassnamesAllKeys(args) ==
  IF args = <<>> THEN <<>>
  ELSE LET arg == Head(args)
       IN (IF arg.kind = "string" THEN arg.tokens
           ELSE IF arg.kind = "object" THEN AllKeys(arg.entries)
           ELSE <<>>)
          \o ClassnamesAllKeys(Tail(args))

RECURSIVE Classnames(_)
\* classnames(...args): the string joining the string arguments and the
\* truthy keys of the object arguments, as its tokens
Classnames(args) ==
  IF args = <<>> THEN <<>>
  ELSE LET arg == Head(args)
       IN (IF arg.kind = "string" THEN arg.tokens
           ELSE IF arg.kind = "object" THEN TruthyKeys(arg.entries)
           ELSE <<>>)
          \o Classnames(Tail(args))

\* str.trim().split(/\s+/): the tokens; a blank string gives ['']
TrimSplit(str) == IF str = <<>> THEN <<"">> ELSE str

\* classList.add(...tokens): an empty token raises SyntaxError
ClassListAdd(cl, tokens) ==
  IF "" \in Range(tokens) THEN [classList |-> cl, raised |-> TRUE]
  ELSE [classList |-> cl \cup Range(tokens), raised |-> FALSE]

\* classList.remove(...tokens)
ClassListRemove(cl, tokens) ==
  IF "" \in Range(tokens) THEN [classList |-> cl, raised |-> TRUE]
  ELSE [classList |-> cl \ Range(tokens), raised |-> FALSE]

\* addClass(element, ...classNames) on class list cl
AddClass(element, cl, classNames) ==
  IF element = Null THEN [classList |-> cl, raised |-> FALSE]
  ELSE ClassListAdd(cl, TrimSplit(Classnames(classNames)))

\* removeClass(element, ...classNames) on class list cl
RemoveClass(element, cl, classNames) ==
  IF element = Null THEN [classList |-> cl, raised |-> FALSE]
  ELSE ClassListRemove(cl, TrimSplit(Classnames(classNames)))

RECURSIVE Reverse(_)
Reverse(s) == IF s = <<>> THEN <<>> ELSE Append(Reverse(Tail(s)), Head(s))

RECURSIVE ForOwnInverted(_, _, _)
\* (a loop that adds the falsy keys and removes the truthy ones)
ForOwnInverted(element, st, entries) ==
  IF entries = <<>> \/ st.raised THEN st
  ELSE LET e == Head(entries)
           next == IF ~e.value THEN AddClass(element, st.classList, <<Str(<<e.key>>)>>)
                   ELSE RemoveClass(element, st.classList, <<Str(<<e.key>>)>>)
       IN ForOwnInverted(element, next, Tail(entries))

RECURSIVE ForOwn(_, _, _)
\* forOwn(args[0], (v, k) => v ? addClass(element, k) : removeClass(element, k))
ForOwn(element, st, entries) ==
  IF entries = <<>> \/ st.raised THEN st
  ELSE LET e == Head(entries)
           next == IF e.value THEN AddClass(element, st.classList, <<Str(<<e.key>>)>>)
                   ELSE RemoveClass(element, st.classList, <<Str(<<e.key>>)>>)
       IN ForOwn(element, next, Tail(entries))

\* toggleClass(element, ...args) on class list cl
ToggleClass(element, cl, args) ==
  LET reversed == Reverse(args)
      add == Head(reversed)
      classNames == Tail(reversed)
  IN IF add.kind # "boolean"
     THEN ForOwn(element, [classList |-> cl, raised |-> FALSE], add.entries)
     ELSE IF add.value THEN AddClass(element, cl, classNames)
          ELSE RemoveClass(element, cl, classNames)

\* the argument lists of addClass and removeClass
ClassArgs ==
  {<<s>> : s \in Strings} \cup {<<o>> : o \in Objects}
    \cup {<<s, o>> : s \in Strings, o \in Objects}

\* the argument lists of toggleClass: a mapping, or class names and a flag
ToggleArgs ==
  {<<o>> : o \in Objects}
    \cup {<<s, Bool(v)>> : s \in Strings, v \in BOOLEAN}
    \cup {<<s, t, Bool(v)>> : s \in Strings, t \in Strings, v \in BOOLEAN}

InitClass ==
  /\ classList \in SUBSET ClassNames
  /\ lastClassOp = NoCall
  /\ parent = InitParent
  /\ layout = DefaultLayout
  /\ found = NoCall
  /\ lastScroll = NoCall
  /\ native = TRUE
  /\ observing = FALSE
  /\ pending = FALSE
  /\ listeners = <<>>
  /\ regs = <<>>
  /\ calls = <<>>

ClassCall(op, element, args, r) ==
  /\ classList' = r.classList
  /\ lastClassOp' = [op |-> op, element |-> element, args |-> args,
                     before |-> classList, raised |-> r.raised]
  /\ UNCHANGED <<parent, watchVars, scrollVars>>

\* one call per behaviour: a call reads only the class list, which the
\* initial states draw from every set
AddClassCall ==
  /\ lastClassOp = NoCall
  /\ \E element \in {"node", Null} : \E args \in ClassArgs :
       ClassCall("addClass", element, args, AddClass(element, classList, args))

RemoveClassCall ==
  /\ lastClassOp = NoCall
  /\ \E element \in {"node", Null} : \E args \in ClassArgs :
       ClassCall("removeClass", element, args, RemoveClass(element, classList, args))

ToggleClassCall ==
  /\ lastClassOp = NoCall
  /\ \E element \in {"node", Null} : \E args \in ToggleArgs :
       ClassCall("toggleClass", element, args, ToggleClass(element, classList, args))

NextClass ==
  \/ AddClassCall
  \/ RemoveClassCall
  \/ ToggleClassCall

SpecClass == InitClass /\ [][NextClass]_vars

\* ----------------------------------------------------------------- class claims

ClassOp(op) == lastClassOp # NoCall /\ lastClassOp.op = op /\ lastClassOp.element # Null

\* addClass(node, 'a', {b: true, c: false})
C8Args == <<Str(<<"a">>), Obj(<<[key |-> "b", value |-> TRUE], [key |-> "c", value |-> FALSE]>>)>>

\* C8 (as amended): for every initial class set, addClass(node, 'a', {b: true,
\* c: false}) leaves the class set equal to the initial one plus a and b (c is
\* present exactly when it was present before), and applying the same call a
\* second time yields the same class set as applying it once.
C8_AddsOnly ==
  (ClassOp("addClass") /\ lastClassOp.args = C8Args) =>
    /\ ~lastClassOp.raised
    /\ classList = lastClassOp.before \cup {"a", "b"}
    /\ ("c" \in classList) <=> ("c" \in lastClassOp.before)
    /\ AddClass("node", classList, C8Args).classList = classList

\* C8 witness: the call was made on a class set that held c and not a.
C8_Witness ==
  /\ ClassOp("addClass")
  /\ lastClassOp.args = C8Args
  /\ "c" \in lastClassOp.before
  /\ "a" \notin lastClassOp.before
  /\ {"a", "b", "c"} \subseteq classList

\* C8 (as stated): afterwards the class set contains a and b and not c, and a
\* second application changes nothing.
C8_Original ==
  (ClassOp("addClass") /\ lastClassOp.args = C8Args) =>
    /\ {"a", "b"} \subseteq classList
    /\ "c" \notin classList
    /\ AddClass("node", classList, C8Args).classList = classList

RECURSIVE AddEach(_, _)
\* addClass(node, k) for each key of the sequence
AddEach(cl, keys) ==
  IF keys = <<>> THEN cl
  ELSE AddEach(AddClass("node", cl, <<Str(<<Head(keys)>>)>>).classList, Tail(keys))

RECURSIVE RemoveEach(_, _)
\* removeClass(node, k) for each key of the sequence
RemoveEach(cl, keys) ==
  IF keys = <<>> THEN cl
  ELSE RemoveEach(RemoveClass("node", cl, <<Str(<<Head(keys)>>)>>).classList, Tail(keys))

KeysWith(entries, v) ==
  AllKeys(SelectSeq(entries, LAMBDA e : e.value = v))

\* C9: toggleClass(node, M) leaves the class set that addClass(node, k) for
\* each key mapped to true and removeClass(node, k) for each key mapped to
\* false leave: the initial set plus the true keys minus the false keys.
C9_ToggleIsAddRemove ==
  (ClassOp("toggleClass") /\ Len(lastClassOp.args) = 1) =>
    LET entries == lastClassOp.args[1].entries
        trueKeys == KeysWith(entries, TRUE)
        falseKeys == KeysWith(entries, FALSE)
    IN /\ ~lastClassOp.raised
       /\ classList = RemoveEach(AddEach(lastClassOp.before, trueKeys), falseKeys)
       /\ classList = (lastClassOp.before \cup Range(trueKeys)) \ Range(falseKeys)

\* C9 witness: toggleClass(node, {x: true, y: false}) on a class set holding
\* y and not x.
C9_Witness ==
  /\ ClassOp("toggleClass")
  /\ lastClassOp.args = <<Obj(<<[key |-> "x", value |-> TRUE], [key |-> "y", value |-> FALSE]>>)>>
  /\ "y" \in lastClassOp.before
  /\ "x" \notin lastClassOp.before
  /\ "x" \in classList /\ "y" \notin classList

====
